---- MODULE Spec2Model ----
(***************************************************************************)
(* Model of src/src/main.ts: the GitHub Action that fetches the current    *)
(* workflow run, its commit and its jobs, derives a result colour, builds  *)
(* one Slack attachment and sends it through an incoming webhook.          *)
(*                                                                         *)
(* Strings the claims look into (durations, field values, titles) are      *)
(* sequences of tokens, one token per character where the characters       *)
(* matter (numbers, unit suffixes, spaces).  Dates are their valueOf(),    *)
(* an integer number of milliseconds.  The quotient duration / 1000 is     *)
(* kept exact by carrying delta in milliseconds.                           *)
(***************************************************************************)
EXTENDS Integers, Sequences, FiniteSets, TLC

VARIABLES
    pc,                 \* where main() is: the await it is suspended at
    inputs,             \* what core.getInput returns for each input name
    webhookUrl,         \* const webhookUrl           (main.ts:37)
    includeJobs,        \* const includeJobs          (main.ts:45)
    slack,              \* const slack                (main.ts:49)
    workflowRun,        \* data of getWorkflowRun     (main.ts:64)
    commit,             \* data of getCommit          (main.ts:69)
    jobsResponse,       \* jobsResponse.jobs          (main.ts:76)
    completedJobs,      \* const completedJobs        (main.ts:82)
    resultColor,        \* let resultColor            (main.ts:87)
    jobFields,          \* let jobFields              (main.ts:89)
    slack_payload_body, \* const slack_payload_body   (main.ts:184)
    net,                \* the network calls started so far, with their outcome
    rejection,          \* the error main()'s promise rejected with
    failed,             \* what core.setFailed was called with
    start,              \* computeDuration's argument start (duration harness)
    end,                \* computeDuration's argument end   (duration harness)
    durationText        \* computeDuration's result         (duration harness)

vars == <<pc, inputs, webhookUrl, includeJobs, slack, workflowRun, commit,
          jobsResponse, completedJobs, resultColor, jobFields,
          slack_payload_body, net, rejection, failed, start, end, durationText>>

mainVars == <<pc, inputs, webhookUrl, includeJobs, slack, workflowRun, commit,
              jobsResponse, completedJobs, resultColor, jobFields,
              slack_payload_body, net, rejection, failed>>

harnessVars == <<start, end, durationText>>

(***************************************************************************)
(* Bounds                                                                  *)
(***************************************************************************)
MaxJobs == 2
MaxDays == 1

(***************************************************************************)
(* JavaScript arithmetic                                                   *)
(***************************************************************************)
\* Math.floor(a / b) for b > 0
Floor(a, b) == IF a >= 0 THEN a \div b ELSE -(((-a) + b - 1) \div b)

\* a % b of JavaScript: the remainder takes the sign of the dividend
JsRem(a, b) == IF a >= 0 THEN a % b ELSE -((-a) % b)

DigitChar == <<"0", "1", "2", "3", "4", "5", "6", "7", "8", "9">>

RECURSIVE Digits(_)
Digits(n) == IF n < 10 THEN <<DigitChar[n + 1]>>
             ELSE Digits(n \div 10) \o <<DigitChar[(n % 10) + 1]>>

\* `${value}` of an integer
NumberToString(v) == IF v < 0 THEN <<"-">> \o Digits(-v) ELSE Digits(v)

RECURSIVE TrimStart(_)
TrimStart(s) == IF s # <<>> /\ Head(s) = " " THEN TrimStart(Tail(s)) ELSE s

RECURSIVE TrimEnd(_)
TrimEnd(s) == IF s # <<>> /\ s[Len(s)] = " "
              THEN TrimEnd(SubSeq(s, 1, Len(s) - 1)) ELSE s

\* String.prototype.trim
trim(s) == TrimEnd(TrimStart(s))

(***************************************************************************)
(* computeDuration                                                         *)
(***************************************************************************)
format_duration(value, text, hide_on_zero) ==
    IF value <= 0 /\ hide_on_zero THEN <<>>
    ELSE NumberToString(value) \o <<text, " ">>

days_of(duration) == Floor(duration, 86400 * 1000)

hours_of(duration) ==
    LET delta == duration - days_of(duration) * 86400 * 1000
    IN  JsRem(Floor(delta, 3600 * 1000), 24)

minutes_of(duration) ==
    LET delta == duration - days_of(duration) * 86400 * 1000
                          - hours_of(duration) * 3600 * 1000
    IN  JsRem(Floor(delta, 60 * 1000), 60)

seconds_of(duration) ==
    LET delta == duration - days_of(duration) * 86400 * 1000
                          - hours_of(duration) * 3600 * 1000
                          - minutes_of(duration) * 60 * 1000
    IN  Floor(JsRem(delta, 60 * 1000), 1000)

\* the result without the trim of its last section
computeDuration_noTrim(s, e) ==
    LET duration == e - s
    IN  format_duration(days_of(duration), "d", TRUE)
        \o format_duration(hours_of(duration), "h", TRUE)
        \o format_duration(minutes_of(duration), "m", TRUE)
        \o format_duration(seconds_of(duration), "s", FALSE)

computeDuration(s, e) ==
    LET duration == e - s
    IN  format_duration(days_of(duration), "d", TRUE)
        \o format_duration(hours_of(duration), "h", TRUE)
        \o format_duration(minutes_of(duration), "m", TRUE)
        \o trim(format_duration(seconds_of(duration), "s", FALSE))

(***************************************************************************)
(* Duration harness: computeDuration applied to a pair of Dates.           *)
(***************************************************************************)
\* Elapsed times (ms) that reach every unit, their carries and sub-second parts
Elapsed ==
    { (((d * 24 + h) * 60 + m) * 60 + sec) * 1000 + ms :
        d \in 0..MaxDays, h \in {0, 1, 23}, m \in {0, 1, 59},
        sec \in {0, 1, 5, 59}, ms \in {0, 1, 999} }

\* Date values are taken relative to a recent instant: TLC integers have 32 bits
Epochs == {0, 1000000123}

NoText == <<"?">>

IdleMain ==
    /\ pc = "idle"
    /\ inputs = <<>>
    /\ webhookUrl = ""
    /\ includeJobs = ""
    /\ slack = <<>>
    /\ workflowRun = <<>>
    /\ commit = <<>>
    /\ jobsResponse = <<>>
    /\ completedJobs = <<>>
    /\ resultColor = ""
    /\ jobFields = <<>>
    /\ slack_payload_body = <<>>
    /\ net = <<>>
    /\ rejection = <<>>
    /\ failed = <<>>

DurationInit ==
    /\ IdleMain
    /\ \E base \in Epochs, e \in Elapsed :
          \/ start = base /\ end = base + e
          \/ start = base + e /\ end = base
    /\ durationText = NoText

ApplyComputeDuration ==
    /\ durationText = NoText
    /\ durationText' = computeDuration(start, end)
    /\ UNCHANGED <<start, end>>
    /\ UNCHANGED mainVars

DurationNext == ApplyComputeDuration

DurationSpec == DurationInit /\ [][DurationNext]_vars

(***************************************************************************)
(* Inputs and collaborator responses                                       *)
(***************************************************************************)
RequiredInputs == <<"slack_webhook_url", "repo_token", "include_jobs">>

\* slack's keys and the input each is read from (main.ts:49-54)
SlackKeys == {"channel", "username", "icon_url", "icon_emoji"}

InputOf(key) == IF key = "username" THEN "name" ELSE key

InputNames == {"slack_webhook_url", "repo_token", "include_jobs",
               "channel", "name", "icon_url", "icon_emoji"}

\* What getInput can return for each input: "" is an input that is not set
InputValues(name) ==
    CASE name = "slack_webhook_url" -> {"", "https://hooks.slack.test/T0"}
      [] name = "repo_token"        -> {"", "ghs_token"}
      [] name = "include_jobs"      -> {"", "true", "false", "on-failure"}
      [] name = "channel"           -> {"", "#builds"}
      [] name = "name"              -> {"", "ci-bot"}
      [] name = "icon_url"          -> {"", "https://img.test/i.png"}
      [] name = "icon_emoji"        -> {"", ":rocket:"}

\* JavaScript's null, apart from every string
Null == [type |-> "null"]

Str(v) == [type |-> "string", value |-> v]

JobNames == <<"build", "test", "lint", "deploy">>

\* (status, conclusion) of a job as the API reports it; a job that has not
\* completed has no conclusion yet
JobStates ==
    { <<"completed", c>> :
        c \in {"success", "failure", "cancelled", "skipped", "timed_out"} }
    \cup { <<"in_progress", "null">> }

\* (started_at, completed_at) of a job, as Date values
JobTimes == { <<0, 65000>>, <<5000, 0>> }

Job(i, st, tm) ==
    [ id |-> i, name |-> JobNames[i], html_url |-> <<"job-url", i>>,
      status |-> st[1], conclusion |-> st[2],
      started_at |-> tm[1], completed_at |-> tm[2] ]

JobLists ==
    UNION { { [ i \in 1..n |-> Job(i, st[i], tm[i]) ] :
                st \in [1..n -> JobStates], tm \in [1..n -> JobTimes] } :
            n \in 0..MaxJobs }

PullRequest(n) == [ number |-> n, head |-> "feature", base |-> "main" ]

WorkflowRuns ==
    { [ html_url |-> "run-url", run_number |-> 14, head_branch |-> "main",
        created_at |-> 0, updated_at |-> u,
        pull_requests |-> [ i \in 1..n |-> PullRequest(i + 6) ] ] :
      u \in {3725999}, n \in {0, 2} }

Commits == { [ sha |-> "0123456789abcdef", html_url |-> "commit-url" ] }

(***************************************************************************)
(* The computation between the last fetch and the send (main.ts:82-189)    *)
(***************************************************************************)
\* the filter without its status test
FilterCompleted_anyStatus(jobs) ==
    SelectSeq(jobs, LAMBDA job : job.conclusion # "skipped")

\* the filter without its skipped test
FilterCompleted_keepSkipped(jobs) ==
    SelectSeq(jobs, LAMBDA job : job.status = "completed")

\* jobsResponse.jobs.filter(...)                              (main.ts:82-84)
FilterCompleted(jobs) ==
    SelectSeq(jobs, LAMBDA job :
        job.status = "completed" /\ job.conclusion # "skipped")

\* the branches with the danger test moved before the cancelled test
ResultColorOf_failureFirst(completed) ==
    IF \A i \in 1..Len(completed) :
          completed[i].conclusion \in {"success", "skipped"} THEN "good"
    ELSE IF \E i \in 1..Len(completed) :
          completed[i].conclusion \notin {"success", "skipped", "cancelled"}
         THEN "danger"
    ELSE "warning"

\* the if / else if / else of main.ts:91-106, its colour
ResultColorOf(completed) ==
    IF \A i \in 1..Len(completed) :
          completed[i].conclusion \in {"success", "skipped"} THEN "good"
    ELSE IF \E i \in 1..Len(completed) :
          completed[i].conclusion = "cancelled" THEN "warning"
    ELSE "danger"

\* the warning branch without its jobFields = []
JobFieldsBeforeMap_onlyGood(policy, completed) ==
    IF policy = "false" THEN [type |-> "array", value |-> <<>>]
    ELSE IF policy = "on-failure"
            /\ (\A i \in 1..Len(completed) :
                   completed[i].conclusion \in {"success", "skipped"})
         THEN [type |-> "array", value |-> <<>>]
    ELSE [type |-> "null"]

\* jobFields before the ??= : undefined (Null) or []       (main.ts:89-110)
JobFieldsBeforeMap(policy, completed) ==
    LET inBranch ==
            IF ResultColorOf(completed) \in {"good", "warning"}
               /\ policy = "on-failure"
            THEN [type |-> "array", value |-> <<>>] ELSE Null
    IN  IF policy = "false" THEN [type |-> "array", value |-> <<>>]
        ELSE inBranch

statusIcons(conclusion) ==
    CASE conclusion = "success"   -> "check"
      [] conclusion = "cancelled" -> "circle-slash"
      [] conclusion = "skipped"   -> "cross"
      [] OTHER                    -> "cross"

\* the callback of completedJobs.map                         (main.ts:113-132)
JobField(job) ==
    [ title |-> "", short |-> TRUE,
      value |-> <<statusIcons(job.conclusion), " ", "<", job.html_url, "|",
                  job.name, ">", " ", "(">>
                \o computeDuration(job.started_at, job.completed_at)
                \o <<")">> ]

\* jobFields ??= completedJobs.map(...)
JobFieldsOf(policy, completed) ==
    LET before == JobFieldsBeforeMap(policy, completed)
    IN  IF before = Null
        THEN [ i \in 1..Len(completed) |-> JobField(completed[i]) ]
        ELSE before.value

\* title                                                     (main.ts:145-163)
TitleOf(run, cmt) ==
    IF 0 < Len(run.pull_requests)
    THEN <<"<", "repo-url", "/pull/", run.pull_requests[1].number, "|",
           "pr-title", " #", run.pull_requests[1].number, ">">>
    ELSE <<"push", " on ", "<", "repo-url", "/tree/", run.head_branch, "|",
           run.head_branch, ">", " ", "<", cmt.html_url, "|", "012345", " >",
           "\n">>

\* detailsString                                             (main.ts:148)
DetailsOf(run) ==
    <<"CI", " ", "<", run.html_url, "|#", run.run_number, ">",
      " completed in *">>
    \o computeDuration(run.created_at, run.updated_at) \o <<"*", "\n">>

\* slackAttachment                                           (main.ts:170-181)
SlackAttachment(run, cmt, color, fields) ==
    [ mrkdwn_in |-> <<"text">>, color |-> color, title |-> TitleOf(run, cmt),
      text |-> DetailsOf(run), fields |-> fields ]

\* Object.entries(slack).filter(([, value]) => value !== null)
KeptKeys(sl) == { k \in SlackKeys : sl[k] # Null }

\* slack_payload_body                                        (main.ts:184-189)
PayloadOf(attachment, sl) ==
    [ k \in {"attachments"} \cup KeptKeys(sl) |->
        IF k = "attachments" THEN <<attachment>> ELSE sl[k] ]

(***************************************************************************)
(* main() and handleError                                                  *)
(***************************************************************************)
NotSet == <<>>

\* The inputs the action is started with
Inputs ==
    { [ slack_webhook_url |-> url, repo_token |-> tok, include_jobs |-> inc,
        channel |-> ch, name |-> nm, icon_url |-> iu, icon_emoji |-> ie ] :
      url \in InputValues("slack_webhook_url"),
      tok \in InputValues("repo_token"),
      inc \in InputValues("include_jobs"),
      ch \in InputValues("channel"), nm \in InputValues("name"),
      iu \in InputValues("icon_url"), ie \in InputValues("icon_emoji") }

\* Errors a rejected request carries; an error may have no message
RequestErrors == { [ message |-> <<"Not Found">> ], [ message |-> <<>> ] }

Init ==
    /\ pc = "start"
    /\ inputs \in Inputs
    /\ webhookUrl = ""
    /\ includeJobs = ""
    /\ slack = NotSet
    /\ workflowRun = NotSet
    /\ commit = NotSet
    /\ jobsResponse = <<>>
    /\ completedJobs = <<>>
    /\ resultColor = ""
    /\ jobFields = <<>>
    /\ slack_payload_body = NotSet
    /\ net = <<>>
    /\ rejection = NotSet
    /\ failed = <<>>
    /\ start = 0
    /\ end = 0
    /\ durationText = NoText

\* include_jobs read without required: true
MissingRequired_twoOnly(in) == { i \in 1..2 : in[RequiredInputs[i]] = "" }

\* core.getInput(name, {required: true}) throws when the input is empty
MissingRequired(in) ==
    { i \in 1..Len(RequiredInputs) : in[RequiredInputs[i]] = "" }

FirstMissing(in) ==
    RequiredInputs[CHOOSE i \in MissingRequired(in) :
                      \A j \in MissingRequired(in) : i <= j]

\* core.getInput(name) without the || null
OrNull_keepEmpty(v) == [type |-> "string", value |-> v]

\* core.getInput(name) || null
OrNull(v) == IF v = "" THEN Null ELSE Str(v)

Call(op) == [ op |-> op, result |-> "pending" ]

\* the pending request (the last one started) settles
Settle(calls, result) == [ calls EXCEPT ![Len(calls)].result = result ]

\* core.setFailed(message)
setFailed(message) == failed' = Append(failed, message)

\* main.ts:35-68: the inputs are read, then the first request is started
MainStart ==
    /\ pc = "start"
    /\ IF MissingRequired(inputs) # {}
       THEN /\ rejection' =
                 [ message |-> <<"Input required and not supplied: ",
                                 FirstMissing(inputs)>> ]
            /\ pc' = "rejected"
            /\ UNCHANGED <<webhookUrl, includeJobs, slack, net>>
       ELSE /\ webhookUrl' = inputs["slack_webhook_url"]
            /\ includeJobs' = inputs["include_jobs"]
            /\ slack' = [ k \in SlackKeys |-> OrNull(inputs[InputOf(k)]) ]
            /\ net' = Append(net, Call("getWorkflowRun"))
            /\ pc' = "awaitRun"
            /\ UNCHANGED rejection
    /\ UNCHANGED <<inputs, workflowRun, commit, jobsResponse, completedJobs,
                   resultColor, jobFields, slack_payload_body, failed>>
    /\ UNCHANGED harnessVars

\* a rejected await that ends the run with no handler called
Reject_swallow(err) ==
    /\ net' = [ net EXCEPT ![Len(net)].result = "error" ]
    /\ rejection' = err
    /\ pc' = "done"

\* a rejected await leaves main() through its promise      (main.ts:32)
Reject(err) ==
    /\ net' = Settle(net, "error")
    /\ rejection' = err
    /\ pc' = "rejected"

\* main.ts:64-73
GetWorkflowRunResolves ==
    /\ pc = "awaitRun"
    /\ \E run \in WorkflowRuns : workflowRun' = run
    /\ net' = Append(Settle(net, "ok"), Call("getCommit"))
    /\ pc' = "awaitCommit"
    /\ UNCHANGED <<inputs, webhookUrl, includeJobs, slack, commit, jobsResponse,
                   completedJobs, resultColor, jobFields, slack_payload_body,
                   rejection, failed>>
    /\ UNCHANGED harnessVars

GetWorkflowRunRejects ==
    /\ pc = "awaitRun"
    /\ \E err \in RequestErrors : Reject(err)
    /\ UNCHANGED <<inputs, webhookUrl, includeJobs, slack, workflowRun, commit,
                   jobsResponse, completedJobs, resultColor, jobFields,
                   slack_payload_body, failed>>
    /\ UNCHANGED harnessVars

\* main.ts:69-80
GetCommitResolves ==
    /\ pc = "awaitCommit"
    /\ \E cmt \in Commits : commit' = cmt
    /\ net' = Append(Settle(net, "ok"), Call("listJobsForWorkflowRun"))
    /\ pc' = "awaitJobs"
    /\ UNCHANGED <<inputs, webhookUrl, includeJobs, slack, workflowRun,
                   jobsResponse, completedJobs, resultColor, jobFields,
                   slack_payload_body, rejection, failed>>
    /\ UNCHANGED harnessVars

GetCommitRejects ==
    /\ pc = "awaitCommit"
    /\ \E err \in RequestErrors : Reject(err)
    /\ UNCHANGED <<inputs, webhookUrl, includeJobs, slack, workflowRun, commit,
                   jobsResponse, completedJobs, resultColor, jobFields,
                   slack_payload_body, failed>>
    /\ UNCHANGED harnessVars

\* main.ts:76-194: the jobs arrive, the payload is built, the send is started
ListJobsResolves ==
    /\ pc = "awaitJobs"
    /\ \E jobs \in JobLists :
          LET completed == FilterCompleted(jobs)
              color == ResultColorOf(completed)
              fields == JobFieldsOf(includeJobs, completed)
          IN  /\ jobsResponse' = jobs
              /\ completedJobs' = completed
              /\ resultColor' = color
              /\ jobFields' = fields
              /\ slack_payload_body' =
                     PayloadOf(SlackAttachment(workflowRun, commit, color,
                                               fields), slack)
    /\ net' = Append(Settle(net, "ok"), Call("send"))
    /\ pc' = "awaitSend"
    /\ UNCHANGED <<inputs, webhookUrl, includeJobs, slack, workflowRun, commit,
                   rejection, failed>>
    /\ UNCHANGED harnessVars

ListJobsRejects ==
    /\ pc = "awaitJobs"
    /\ \E err \in RequestErrors : Reject(err)
    /\ UNCHANGED <<inputs, webhookUrl, includeJobs, slack, workflowRun, commit,
                   jobsResponse, completedJobs, resultColor, jobFields,
                   slack_payload_body, failed>>
    /\ UNCHANGED harnessVars

\* main.ts:193-194: the send succeeds and main() returns
SendResolves ==
    /\ pc = "awaitSend"
    /\ net' = Settle(net, "ok")
    /\ pc' = "done"
    /\ UNCHANGED <<inputs, webhookUrl, includeJobs, slack, workflowRun, commit,
                   jobsResponse, completedJobs, resultColor, jobFields,
                   slack_payload_body, rejection, failed>>
    /\ UNCHANGED harnessVars

\* a catch block that drops the error
SendRejects_swallow ==
    /\ pc = "awaitSend"
    /\ net' = [ net EXCEPT ![Len(net)].result = "error" ]
    /\ pc' = "done"
    /\ UNCHANGED <<inputs, webhookUrl, includeJobs, slack, workflowRun, commit,
                   jobsResponse, completedJobs, resultColor, jobFields,
                   slack_payload_body, rejection, failed>>
    /\ UNCHANGED <<start, end, durationText>>

\* main.ts:195-197: catch (err) { core.setFailed(err) }, an Error's toString()
SendRejects ==
    /\ pc = "awaitSend"
    /\ \E err \in RequestErrors :
          setFailed(IF err.message = <<>> THEN <<"Error">>
                    ELSE <<"Error: ">> \o err.message)
    /\ net' = Settle(net, "error")
    /\ pc' = "done"
    /\ UNCHANGED <<inputs, webhookUrl, includeJobs, slack, workflowRun, commit,
                   jobsResponse, completedJobs, resultColor, jobFields,
                   slack_payload_body, rejection>>
    /\ UNCHANGED harnessVars

\* main.ts:227-234, called by main().catch
handleError ==
    /\ pc = "rejected"
    /\ IF rejection.message # <<>>
       THEN setFailed(rejection.message)
       ELSE setFailed(<<"Unhandled Error: ", "Error">>)
    /\ pc' = "done"
    /\ UNCHANGED <<inputs, webhookUrl, includeJobs, slack, workflowRun, commit,
                   jobsResponse, completedJobs, resultColor, jobFields,
                   slack_payload_body, net, rejection>>
    /\ UNCHANGED harnessVars

Next ==
    \/ MainStart
    \/ GetWorkflowRunResolves
    \/ GetWorkflowRunRejects
    \/ GetCommitResolves
    \/ GetCommitRejects
    \/ ListJobsResolves
    \/ ListJobsRejects
    \/ SendResolves
    \/ SendRejects
    \/ handleError

Spec == Init /\ [][Next]_vars

(***************************************************************************)
(* Vocabulary of the properties, stated over the fetched data and the      *)
(* payload handed to the send                                              *)
(***************************************************************************)
Sends == { i \in DOMAIN net : net[i].op = "send" }

FetchOps == {"getWorkflowRun", "getCommit", "listJobsForWorkflowRun"}

\* the payload has been composed and handed to the webhook
Composed == Sends # {}

SentAttachment == slack_payload_body["attachments"][1]

SentFields == SentAttachment.fields

\* positions, in fetch order, of the jobs that are completed and not skipped
Included ==
    { i \in DOMAIN jobsResponse :
        /\ jobsResponse[i].status = "completed"
        /\ jobsResponse[i].conclusion # "skipped" }

AllSucceeded ==
    \A i \in Included : jobsResponse[i].conclusion \in {"success", "skipped"}

AnyCancelled == \E i \in Included : jobsResponse[i].conclusion = "cancelled"

AnyFailure == \E i \in Included : jobsResponse[i].conclusion = "failure"

ConfigMissing == \E i \in DOMAIN RequiredInputs : inputs[RequiredInputs[i]] = ""

FetchFailed ==
    \E i \in DOMAIN net : net[i].op \in FetchOps /\ net[i].result = "error"

Computed == durationText # NoText

Shown(text, unit) == \E i \in DOMAIN text : text[i] = unit

(***************************************************************************)
(* C1: the level is good when every completed, non-skipped job concluded   *)
(* success or skipped (also when there is none), otherwise warning when    *)
(* one of them is cancelled, otherwise danger; exactly one level results,  *)
(* and every fetched job list leads to a composed payload.                 *)
(***************************************************************************)
C1_SeverityRule ==
    /\ (pc \in {"awaitSend", "done"} /\ ~FetchFailed /\ ~ConfigMissing)
          => Composed
    /\ Composed =>
          /\ resultColor \in {"good", "warning", "danger"}
          /\ (resultColor = "good") <=> AllSucceeded
          /\ (resultColor = "warning") <=> (~AllSucceeded /\ AnyCancelled)
          /\ (resultColor = "danger") <=> (~AllSucceeded /\ ~AnyCancelled)
          /\ SentAttachment.color = resultColor

C1_Witness ==
    /\ Composed
    /\ resultColor = "danger"
    /\ Len(jobsResponse) = 2
    /\ jobsResponse[1].conclusion = "skipped"
    /\ jobsResponse[2].conclusion = "timed_out"

(***************************************************************************)
(* C2 as stated: a job list with a failure and a cancelled job among the   *)
(* completed, non-skipped jobs gives danger.                               *)
(***************************************************************************)
C2_FailureOverCancelled ==
    (Composed /\ AnyFailure /\ AnyCancelled) => resultColor = "danger"

(***************************************************************************)
(* C2 amended: a job list with a failure and a cancelled job among the     *)
(* completed, non-skipped jobs gives warning: cancelled is tested before   *)
(* the danger default.                                                     *)
(***************************************************************************)
C2_CancelledOverFailure ==
    (Composed /\ AnyFailure /\ AnyCancelled) => resultColor = "warning"

C2_Witness ==
    /\ Composed
    /\ Len(jobsResponse) = 2
    /\ jobsResponse[1].status = "completed"
    /\ jobsResponse[1].conclusion = "cancelled"
    /\ jobsResponse[2].status = "completed"
    /\ jobsResponse[2].conclusion = "failure"
    /\ resultColor = "warning"

(***************************************************************************)
(* C3: with include_jobs 'false' the attachment's fields are empty; with   *)
(* 'true' they are populated exactly when a completed, non-skipped job     *)
(* exists; with 'on-failure' they are populated iff the level is danger.   *)
(***************************************************************************)
C3_InclusionPolicy ==
    Composed =>
       /\ inputs["include_jobs"] = "false" => SentFields = <<>>
       /\ inputs["include_jobs"] = "true"
             => ((SentFields # <<>>) <=> (Included # {}))
       /\ inputs["include_jobs"] = "on-failure"
             => ((SentFields # <<>>) <=> (resultColor = "danger"))

C3_Witness ==
    /\ Composed
    /\ inputs["include_jobs"] = "on-failure"
    /\ resultColor = "warning"
    /\ Included # {}
    /\ SentFields = <<>>

(***************************************************************************)
(* C4: the fields are empty, or hold one entry per completed, non-skipped  *)
(* job, in fetch order: the k-th such job is named by the k-th field, and  *)
(* there is no other field.                                                *)
(***************************************************************************)
Rank(i) == Cardinality({ j \in Included : j <= i })

C4_FieldsFollowJobs ==
    Composed =>
       \/ SentFields = <<>>
       \/ /\ Len(SentFields) = Cardinality(Included)
          /\ \A i \in Included :
                /\ SentFields[Rank(i)].value[4] = jobsResponse[i].html_url
                /\ SentFields[Rank(i)].value[6] = jobsResponse[i].name

C4_Witness ==
    /\ Composed
    /\ Len(jobsResponse) = 2
    /\ Included = {2}
    /\ Len(SentFields) = 1
    /\ SentFields[1].value[6] = jobsResponse[2].name

(***************************************************************************)
(* C5: for end >= start and t the elapsed whole seconds, the text is the   *)
(* units d = t div 86400, h = (t mod 86400) div 3600, m = (t mod 3600) div *)
(* 60, s = t mod 60 joined by single spaces, d/h/m shown only when > 0 and *)
(* s always shown last; 0 -> "0s", 59 -> "59s", 65 -> "1m 5s",             *)
(* 90061 -> "1d 1h 1m 1s", whatever the sub-second remainder.              *)
(***************************************************************************)
Unit(value, suffix) == NumberToString(value) \o <<suffix>>

RECURSIVE JoinSpace(_)
JoinSpace(parts) ==
    IF parts = <<>> THEN <<>>
    ELSE IF Len(parts) = 1 THEN parts[1]
    ELSE parts[1] \o <<" ">> \o JoinSpace(Tail(parts))

C5_DurationText ==
    (Computed /\ end >= start) =>
       LET t == (end - start) \div 1000
           d == t \div 86400
           h == (t % 86400) \div 3600
           m == (t % 3600) \div 60
           sec == t % 60
           parts == (IF d > 0 THEN <<Unit(d, "d")>> ELSE <<>>)
                    \o (IF h > 0 THEN <<Unit(h, "h")>> ELSE <<>>)
                    \o (IF m > 0 THEN <<Unit(m, "m")>> ELSE <<>>)
                    \o <<Unit(sec, "s")>>
       IN  /\ durationText = JoinSpace(parts)
           /\ t = 0 => durationText = <<"0", "s">>
           /\ t = 59 => durationText = <<"5", "9", "s">>
           /\ t = 65 => durationText = <<"1", "m", " ", "5", "s">>
           /\ t = 90061 => durationText = <<"1", "d", " ", "1", "h", " ",
                                            "1", "m", " ", "1", "s">>

C5_Witness ==
    /\ Computed
    /\ end - start = 90061999
    /\ durationText = <<"1", "d", " ", "1", "h", " ", "1", "m", " ", "1", "s">>

(***************************************************************************)
(* C6 as stated: for end before start no day, hour or minute is shown,     *)
(* and an elapsed time of -5 seconds gives "-5s".                          *)
(***************************************************************************)
C6_NegativeDuration ==
    (Computed /\ end < start) =>
       /\ ~Shown(durationText, "d")
       /\ ~Shown(durationText, "h")
       /\ ~Shown(durationText, "m")
       /\ end - start = -5000 => durationText = <<"-", "5", "s">>

(***************************************************************************)
(* C7: a send is started only as the fourth call, after getWorkflowRun,    *)
(* getCommit and listJobsForWorkflowRun each resolved, in that order and   *)
(* one at a time; once a fetch has failed no send exists and the run ends  *)
(* with setFailed called.                                                  *)
(***************************************************************************)
C7_SendAfterFetches ==
    /\ \A i \in DOMAIN net : net[i].result = "pending" => i = Len(net)
    /\ \A i \in Sends :
          /\ i = 4
          /\ net[1] = [op |-> "getWorkflowRun", result |-> "ok"]
          /\ net[2] = [op |-> "getCommit", result |-> "ok"]
          /\ net[3] = [op |-> "listJobsForWorkflowRun", result |-> "ok"]
    /\ FetchFailed =>
          /\ Sends = {}
          /\ pc \in {"rejected", "done"}
          /\ pc = "done" => Len(failed) = 1

C7_Witness ==
    /\ pc = "done"
    /\ Len(net) = 3
    /\ net[3] = [op |-> "listJobsForWorkflowRun", result |-> "error"]
    /\ Sends = {}
    /\ Len(failed) = 1

(***************************************************************************)
(* C8: at most one send is started, exactly one once the inputs were read  *)
(* and the three fetches resolved; a failed send is followed by no other   *)
(* call and the run ends with setFailed called with the send's error.      *)
(***************************************************************************)
C8_SingleSend ==
    /\ Cardinality(Sends) <= 1
    /\ (Len(net) >= 3 /\ net[3].result = "ok") => Cardinality(Sends) = 1
    /\ \A i \in Sends :
          net[i].result = "error" =>
             /\ i = Len(net)
             /\ pc = "done"
             /\ Len(failed) = 1
             /\ Head(failed[1]) \in {"Error", "Error: "}
    /\ (pc = "done" /\ failed = <<>>) =>
          (Sends # {} /\ \A i \in DOMAIN net : net[i].result = "ok")

C8_Witness ==
    /\ pc = "done"
    /\ Len(net) = 4
    /\ net[4] = [op |-> "send", result |-> "error"]
    /\ failed = << <<"Error: ", "Not Found">> >>

(***************************************************************************)
(* C9: the payload's keys are attachments plus exactly the keys of the     *)
(* overrides whose input (channel, name, icon_url, icon_emoji) is not      *)
(* empty, each with that input's value: never null, never "".              *)
(***************************************************************************)
C9_OverrideKeys ==
    Composed =>
       /\ "attachments" \in DOMAIN slack_payload_body
       /\ Len(slack_payload_body["attachments"]) = 1
       /\ \A k \in SlackKeys :
             (k \in DOMAIN slack_payload_body) <=> (inputs[InputOf(k)] # "")
       /\ DOMAIN slack_payload_body \subseteq SlackKeys \cup {"attachments"}
       /\ \A k \in DOMAIN slack_payload_body \ {"attachments"} :
             /\ slack_payload_body[k] # Null
             /\ slack_payload_body[k] = Str(inputs[InputOf(k)])

C9_Witness ==
    /\ Composed
    /\ inputs["channel"] # ""
    /\ inputs["name"] # ""
    /\ inputs["icon_url"] = ""
    /\ inputs["icon_emoji"] = ""
    /\ DOMAIN slack_payload_body = {"attachments", "channel", "username"}

(***************************************************************************)
(* C10: when slack_webhook_url, repo_token or include_jobs is missing, no  *)
(* network call is ever started and the run ends with setFailed called     *)
(* once, with the message of the error naming the first missing input.     *)
(***************************************************************************)
C10_FailFast ==
    ConfigMissing =>
       /\ net = <<>>
       /\ pc \in {"start", "rejected", "done"}
       /\ pc = "done" =>
             /\ Len(failed) = 1
             /\ failed[1] = rejection.message
             /\ failed[1][1] = "Input required and not supplied: "
             /\ inputs[failed[1][2]] = ""

C10_Witness ==
    /\ pc = "done"
    /\ inputs["slack_webhook_url"] # ""
    /\ inputs["repo_token"] # ""
    /\ inputs["include_jobs"] = ""
    /\ net = <<>>
    /\ failed = << <<"Input required and not supplied: ", "include_jobs">> >>

====
